---- MODULE Spec2Model ----
(***************************************************************************)
(* Event registration admission control and realtime chat of rebelzapp     *)
(* (app/api/routers/registrations.py, app/api/routers/events.py,           *)
(* app/api/routers/websocket.py), with the chat group handlers             *)
(* (app/api/routers/chat.py, app/api/routers/admin_chat.py) and the rate   *)
(* limiter (app/middleware/redis_rate_limit.py).                           *)
(*                                                                         *)
(* The database tables are the state: events, event_registrations and      *)
(* attendance_records.  Every HTTP handler is one action, and `response'   *)
(* is the handler and the HTTP status code of the last request served.     *)
(* The realtime part adds the two maps of the ConnectionManager, the       *)
(* chat_messages table and one task per connection, which runs from one    *)
(* await to the next in one step.                                          *)
(* The chat part adds the chat_groups and chat_group_members tables, the   *)
(* rate limiter the sorted sets that Redis keeps and the clock.            *)
(*                                                                         *)
(*   Spec        Register, Cancel, AdminUpdate, update_event               *)
(*   SpecAdmit   Register and Cancel by three users                        *)
(*   SpecAttend  Register, Cancel, AdminUpdate, RecordAttendance           *)
(*   SpecFields  Register and AdminUpdate with the text fields             *)
(*   SpecStatus  Register and AdminUpdate with any string as the status    *)
(*   SpecEvents  create_event and update_event with the time window        *)
(*   SpecConc    register_for_event as the sequence of its database round  *)
(*               trips, for requests that run concurrently                 *)
(*   SpecWs      connections of one user: connect, typing and bad          *)
(*               payloads, disconnect, broadcasts send by send             *)
(*   SpecWsMsg   connections of two users of one group with chat messages  *)
(*   SpecWsFan   SpecWsMsg with one message: the fan-out of a broadcast    *)
(*   SpecWsOrd   SpecWsMsg with the record of what is sent to whom         *)
(*   SpecWsLive  SpecWsOrd with fair scheduling of the connection tasks    *)
(*   SpecChat    the HTTP handlers of the chat groups and their members    *)
(*   SpecWsMember  connections of a group while members are removed        *)
(*   SpecRate    requests to the Redis rate limiter while the clock runs   *)
(***************************************************************************)
EXTENDS Integers, FiniteSets, Sequences, TLC

VARIABLES events, regs, attendance, nextRegId, nextAttId, response, trace, reqs,
          active_connections, websocket_users, chat_messages, conn, delivered,
          chat_groups, chat_group_members,
          redis, time, passed

\* the realtime registry, the chat_messages table, the connections and the
\* record of what was sent to them
wsvars == <<active_connections, websocket_users, chat_messages, conn, delivered>>

\* the tables of the chat groups and of their members
chatvars == <<chat_groups, chat_group_members>>

\* the tables of the registration handlers and what is kept of their requests
regvars == <<events, regs, attendance, nextRegId, nextAttId, trace, reqs>>

\* the sorted sets of the rate limiter, the clock in seconds and the times
\* of the requests that the limiter let through
rlvars == <<redis, time, passed>>

\* all that the realtime handlers leave alone
dbvars == <<regvars, chatvars, rlvars>>

vars == <<events, regs, attendance, nextRegId, nextAttId, response, trace, reqs,
          active_connections, websocket_users, chat_messages, conn, delivered,
          chat_groups, chat_group_members, redis, time, passed>>

(***************************************************************************)
(* Bounds of the model.                                                    *)
(***************************************************************************)
MaxRegId == 3        \* registrations ever inserted in Spec (ids 1..MaxRegId)
MaxAdmitRegId == 4   \* registrations ever inserted in SpecAdmit
MaxAttendRegId == 2  \* registrations ever inserted in SpecAttend
MaxFieldsRegId == 2  \* registrations ever inserted in SpecFields
MaxStatusRegId == 2  \* registrations ever inserted in SpecStatus
MaxEvents == 2       \* rows of the events table in SpecEvents
MaxTime == 2         \* start and end times are 1..MaxTime
MaxConns == 2        \* realtime connections ever opened
MaxMessages == 2     \* rows of the chat_messages table
MaxFanMessages == 1  \* rows of the chat_messages table in SpecWsFan
MaxGroups == 1       \* rows of the chat_groups table in SpecChat
MaxMemberIds == 2    \* length of member_ids in create_managed_group
MaxClock == 5        \* seconds that the clock of SpecRate runs
MaxPassed == 4       \* requests that the rate limiter lets through for a client
MaxCapacity == 2     \* largest event capacity tried
MaxReqs == 2         \* register_for_event requests in flight (SpecConc)
MaxTrace == 5        \* successful requests that the history keeps

(***************************************************************************)
(* Python None.  NoneInt stands for None in Optional[int] columns and      *)
(* payload fields, NoneStr for None in Optional[str] ones.                 *)
(***************************************************************************)
NoneInt == 0 - 1
NoneStr == "<None>"

(***************************************************************************)
(* Users, roles and permissions (scripts/seed.py).                         *)
(***************************************************************************)
Users == {"A", "B", "C"}

DEFAULT_ROLES ==
    [student    |-> {"view_events"},
     instructor |-> {"view_events", "manage_events"},
     admin      |-> {"view_events", "manage_events", "manage_users",
                     "manage_roles", "manage_permissions"}]

UserRoles ==
    [u \in Users |-> IF u = "A" THEN {"student"}
                     ELSE IF u = "B" THEN {"instructor"}
                     ELSE {"admin"}]

\* deps.require_permissions: the permissions of all roles of the user
user_permissions(u) == UNION {DEFAULT_ROLES[r] : r \in UserRoles[u]}

require_permissions(u, perm) == perm \in user_permissions(u)

\* the test with the wrong permission name
has_manage_permission_view(u) ==
    \/ \E r \in UserRoles[u] : "view_events" \in DEFAULT_ROLES[r]
    \/ "admin" \in UserRoles[u]

\* cancel_registration: manage_events through some role, or the admin role
has_manage_permission(u) ==
    \/ \E r \in UserRoles[u] : "manage_events" \in DEFAULT_ROLES[r]
    \/ "admin" \in UserRoles[u]

(***************************************************************************)
(* RegistrationStatus and the tables.                                      *)
(***************************************************************************)
PENDING == "pending"
CONFIRMED == "confirmed"
CANCELLED == "cancelled"
WAITLIST == "waitlist"

RegistrationStatus == {PENDING, CONFIRMED, CANCELLED, WAITLIST}

TextFields == {"notes", "emergency_contact", "dietary_restrictions", "special_needs"}

\* a row of event_registrations
EventRegistration(e, u, st, p) ==
    [event_id |-> e, user_id |-> u, status |-> st,
     notes |-> p.notes, emergency_contact |-> p.emergency_contact,
     dietary_restrictions |-> p.dietary_restrictions,
     special_needs |-> p.special_needs]

\* a row of attendance_records
AttendanceRecord(rid, present, by) ==
    [registration_id |-> rid, was_present |-> present, recorded_by_user_id |-> by]

\* db.add(row); db.commit() on a table kept as a function from primary key to row
Insert(table, id, row) ==
    [k \in DOMAIN table \cup {id} |-> IF k = id THEN row ELSE table[k]]

\* the table without the rows whose primary key is in ids
Delete(table, ids) == [k \in DOMAIN table \ ids |-> table[k]]

(***************************************************************************)
(* register_for_event                                                      *)
(***************************************************************************)
\* the select with cancelled rows left out
ExistingRegistrations_active(rs, e, u) ==
    {id \in DOMAIN rs : rs[id].event_id = e /\ rs[id].user_id = u
                          /\ rs[id].status # CANCELLED}

\* select(EventRegistration).where(event_id == e, user_id == u)
ExistingRegistrations(rs, e, u) ==
    {id \in DOMAIN rs : rs[id].event_id = e /\ rs[id].user_id = u}

\* select(func.count(id)).where(event_id == e, status == CONFIRMED)
confirmed_count(rs, e) ==
    Cardinality({id \in DOMAIN rs : rs[id].event_id = e /\ rs[id].status = CONFIRMED})

\* `if event.capacity:' -- None and 0 are both false in Python
Truthy(capacity) == capacity # NoneInt /\ capacity # 0

initial_status(capacity, count) ==
    IF Truthy(capacity)
    THEN IF count < capacity THEN CONFIRMED ELSE WAITLIST
    ELSE CONFIRMED

\* a handler that opens a CANCELLED row of the user again instead of refusing
register_for_event_reopen(u, e, p) ==
    LET existing == ExistingRegistrations(regs, e, u)
    IN  IF ~(e \in DOMAIN events)
        THEN /\ response' = [op |-> "register", code |-> 404]
             /\ UNCHANGED <<regs, nextRegId>>
        ELSE IF \E id \in existing : regs[id].status = CANCELLED
        THEN /\ regs' = [id \in DOMAIN regs |->
                            IF id \in existing /\ regs[id].status = CANCELLED
                            THEN [regs[id] EXCEPT !.status =
                                     initial_status(events[e].capacity,
                                                    confirmed_count(regs, e))]
                            ELSE regs[id]]
             /\ nextRegId' = nextRegId
             /\ response' = [op |-> "register", code |-> 201]
        ELSE IF existing # {}
        THEN /\ response' = [op |-> "register", code |-> 400]
             /\ UNCHANGED <<regs, nextRegId>>
        ELSE /\ regs' = Insert(regs, nextRegId,
                    EventRegistration(e, u,
                        initial_status(events[e].capacity, confirmed_count(regs, e)), p))
             /\ nextRegId' = nextRegId + 1
             /\ response' = [op |-> "register", code |-> 201]

\* the handler: the event, the existing registration, the capacity, the insert
register_for_event(u, e, p) ==
    IF ~(e \in DOMAIN events)
    THEN /\ response' = [op |-> "register", code |-> 404]
         /\ UNCHANGED <<regs, nextRegId>>
    ELSE IF Cardinality(ExistingRegistrations(regs, e, u)) > 1
    THEN \* scalar_one_or_none() raises MultipleResultsFound
         /\ response' = [op |-> "register", code |-> 500]
         /\ UNCHANGED <<regs, nextRegId>>
    ELSE IF ExistingRegistrations(regs, e, u) # {}
    THEN /\ response' = [op |-> "register", code |-> 400]
         /\ UNCHANGED <<regs, nextRegId>>
    ELSE /\ regs' = Insert(regs, nextRegId,
                EventRegistration(e, u,
                    initial_status(events[e].capacity, confirmed_count(regs, e)), p))
         /\ nextRegId' = nextRegId + 1
         /\ response' = [op |-> "register", code |-> 201]

Register(u, e, p) ==
    /\ register_for_event(u, e, p)
    /\ UNCHANGED <<events, attendance, nextAttId, reqs>>
    /\ UNCHANGED <<wsvars, chatvars, rlvars>>

(***************************************************************************)
(* cancel_registration                                                     *)
(***************************************************************************)
\* relationship(cascade="all, delete-orphan"): the attendance rows that
\* db.delete(registration) deletes with the registration
AttendanceOf(att, rid) == {a \in DOMAIN att : att[a].registration_id = rid}

\* a delete that leaves the attendance rows behind
cascade_delete_none(att, rid) == att

cascade_delete(att, rid) == Delete(att, AttendanceOf(att, rid))

\* a delete that hands the freed place to the oldest WAITLIST row of the event
delete_registration_promote(rs, rid) ==
    LET waiting == {id \in DOMAIN rs \ {rid} :
                        rs[id].event_id = rs[rid].event_id /\ rs[id].status = WAITLIST}
        oldest == {id \in waiting : \A other \in waiting : id <= other}
    IN  [k \in DOMAIN rs \ {rid} |->
            IF rs[rid].status = CONFIRMED /\ k \in oldest
            THEN [rs[k] EXCEPT !.status = CONFIRMED]
            ELSE rs[k]]

\* db.delete(registration); the other rows are not touched
delete_registration(rs, rid) == Delete(rs, {rid})

cancel_registration(actor, rid) ==
    IF ~(rid \in DOMAIN regs)
    THEN /\ response' = [op |-> "cancel", code |-> 404]
         /\ UNCHANGED <<regs, attendance>>
    ELSE IF regs[rid].user_id # actor /\ ~has_manage_permission(actor)
    THEN /\ response' = [op |-> "cancel", code |-> 403]
         /\ UNCHANGED <<regs, attendance>>
    ELSE /\ regs' = delete_registration(regs, rid)
         /\ attendance' = cascade_delete(attendance, rid)
         /\ response' = [op |-> "cancel", code |-> 204]

Cancel(actor, rid) ==
    /\ cancel_registration(actor, rid)
    /\ UNCHANGED <<events, nextRegId, nextAttId, reqs>>
    /\ UNCHANGED <<wsvars, chatvars, rlvars>>

(***************************************************************************)
(* update_registration (AdminUpdate)                                       *)
(***************************************************************************)
\* the assignments without the `is not None' tests
apply_update_all(row, p) ==
    [row EXCEPT !.status = p.status, !.notes = p.notes,
                !.emergency_contact = p.emergency_contact,
                !.dietary_restrictions = p.dietary_restrictions,
                !.special_needs = p.special_needs]

\* `if payload.f is not None: registration.f = payload.f' for the five fields
apply_update(row, p) ==
    [row EXCEPT
        !.status = IF p.status # NoneStr THEN p.status ELSE @,
        !.notes = IF p.notes # NoneStr THEN p.notes ELSE @,
        !.emergency_contact =
            IF p.emergency_contact # NoneStr THEN p.emergency_contact ELSE @,
        !.dietary_restrictions =
            IF p.dietary_restrictions # NoneStr THEN p.dietary_restrictions ELSE @,
        !.special_needs = IF p.special_needs # NoneStr THEN p.special_needs ELSE @]

update_registration(actor, rid, p) ==
    IF ~require_permissions(actor, "manage_events")
    THEN /\ response' = [op |-> "update_registration", code |-> 403]
         /\ UNCHANGED regs
    ELSE IF ~(rid \in DOMAIN regs)
    THEN /\ response' = [op |-> "update_registration", code |-> 404]
         /\ UNCHANGED regs
    ELSE /\ regs' = [regs EXCEPT ![rid] = apply_update(@, p)]
         /\ response' = [op |-> "update_registration", code |-> 200]

AdminUpdate(actor, rid, p) ==
    /\ update_registration(actor, rid, p)
    /\ UNCHANGED <<events, attendance, nextRegId, nextAttId, reqs>>
    /\ UNCHANGED <<wsvars, chatvars, rlvars>>

(***************************************************************************)
(* create_event and update_event.  A row of events is its type, its time   *)
(* window and its capacity; a time is a number, the later the larger.      *)
(***************************************************************************)
Event(type, start, end, capacity) ==
    [type |-> type, start_time |-> start, end_time |-> end, capacity |-> capacity]

\* event_registry.get_schema(type) is not None
KnownTypes ==
    {"class", "sport_class", "workshop", "seminar", "camp", "competition",
     "community", "conference", "event"}

\* the primary key the database gives the next row of a table never deleted from
NextEventId(table) == Cardinality(DOMAIN table) + 1

\* the handler: the permission, the type, the insert; the window is not looked at
create_event(actor, p) ==
    IF ~require_permissions(actor, "manage_events")
    THEN /\ response' = [op |-> "create_event", code |-> 403]
         /\ UNCHANGED events
    ELSE IF ~(p.type \in KnownTypes)
    THEN /\ response' = [op |-> "create_event", code |-> 400]
         /\ UNCHANGED events
    ELSE /\ events' = Insert(events, NextEventId(events),
                             Event(p.type, p.start_time, p.end_time, p.capacity))
         /\ response' = [op |-> "create_event", code |-> 201]

CreateEvent(actor, p) ==
    /\ create_event(actor, p)
    /\ UNCHANGED <<regs, attendance, nextRegId, nextAttId, reqs>>
    /\ UNCHANGED <<wsvars, chatvars, rlvars>>

\* `if payload.f is not None: event.f = payload.f' for the fields of the row
apply_event_update(row, p) ==
    [row EXCEPT
        !.start_time = IF p.start_time # NoneInt THEN p.start_time ELSE @,
        !.end_time = IF p.end_time # NoneInt THEN p.end_time ELSE @,
        !.capacity = IF p.capacity # NoneInt THEN p.capacity ELSE @]

update_event(actor, e, p) ==
    IF ~require_permissions(actor, "manage_events")
    THEN /\ response' = [op |-> "update_event", code |-> 403]
         /\ UNCHANGED events
    ELSE IF ~(e \in DOMAIN events)
    THEN /\ response' = [op |-> "update_event", code |-> 404]
         /\ UNCHANGED events
    ELSE /\ events' = [events EXCEPT ![e] = apply_event_update(@, p)]
         /\ response' = [op |-> "update_event", code |-> 200]

UpdateEvent(actor, e, p) ==
    /\ update_event(actor, e, p)
    /\ UNCHANGED <<regs, attendance, nextRegId, nextAttId, reqs>>
    /\ UNCHANGED <<wsvars, chatvars, rlvars>>

(***************************************************************************)
(* record_attendance                                                       *)
(***************************************************************************)
\* the select with the primary key compared instead of registration_id
ExistingAttendance_byid(att, rid) == {a \in DOMAIN att : a = rid}

\* select(AttendanceRecord).where(registration_id == rid)
ExistingAttendance(att, rid) == {a \in DOMAIN att : att[a].registration_id = rid}

record_attendance(actor, rid, present) ==
    IF ~require_permissions(actor, "manage_events")
    THEN /\ response' = [op |-> "record_attendance", code |-> 403]
         /\ UNCHANGED <<attendance, nextAttId>>
    ELSE IF ~(rid \in DOMAIN regs)
    THEN /\ response' = [op |-> "record_attendance", code |-> 404]
         /\ UNCHANGED <<attendance, nextAttId>>
    ELSE IF Cardinality(ExistingAttendance(attendance, rid)) > 1
    THEN \* scalar_one_or_none() raises MultipleResultsFound
         /\ response' = [op |-> "record_attendance", code |-> 500]
         /\ UNCHANGED <<attendance, nextAttId>>
    ELSE IF ExistingAttendance(attendance, rid) # {}
    THEN /\ response' = [op |-> "record_attendance", code |-> 400]
         /\ UNCHANGED <<attendance, nextAttId>>
    ELSE /\ attendance' = Insert(attendance, nextAttId,
                                 AttendanceRecord(rid, present, actor))
         /\ nextAttId' = nextAttId + 1
         /\ response' = [op |-> "record_attendance", code |-> 201]

RecordAttendance(actor, rid, present) ==
    /\ record_attendance(actor, rid, present)
    /\ UNCHANGED <<events, regs, nextRegId, reqs>>
    /\ UNCHANGED <<wsvars, chatvars, rlvars>>

(***************************************************************************)
(* get_event_registration_stats                                            *)
(***************************************************************************)
\* len([r for r in registrations if r.status == st])
status_count(rs, e, st) ==
    Cardinality({id \in DOMAIN rs : rs[id].event_id = e /\ rs[id].status = st})

\* lines 291-297: the attendance records joined to the registrations of the
\* event, those with was_present set
attended_count(rs, att, e) ==
    Cardinality({a \in DOMAIN att :
                    /\ att[a].registration_id \in DOMAIN rs
                    /\ rs[att[a].registration_id].event_id = e
                    /\ att[a].was_present})

\* line 298: attended_count / confirmed_registrations * 100 as the fraction
\* num / den, or None
attendance_rate(attended, confirmed) ==
    IF confirmed > 0
    THEN [none |-> FALSE, num |-> attended * 100, den |-> confirmed]
    ELSE [none |-> TRUE, num |-> 0, den |-> 1]

\* lines 279-310: the statistics of an event that exists
get_event_registration_stats(rs, att, e) ==
    [total_registrations |-> Cardinality({id \in DOMAIN rs : rs[id].event_id = e}),
     confirmed_registrations |-> status_count(rs, e, CONFIRMED),
     pending_registrations |-> status_count(rs, e, PENDING),
     waitlist_registrations |-> status_count(rs, e, WAITLIST),
     cancelled_registrations |-> status_count(rs, e, CANCELLED),
     attendance_rate |-> attendance_rate(attended_count(rs, att, e),
                                         status_count(rs, e, CONFIRMED))]

(***************************************************************************)
(* The realtime registry (app/api/routers/websocket.py).                   *)
(*                                                                         *)
(* Every connection is served by one task that runs websocket_endpoint.    *)
(* The tasks run on one event loop: a task runs alone from one `await' to  *)
(* the next, and every `await' of a send or a receive is a point where the *)
(* other tasks may run.  An action is what a task does between two such    *)
(* points.                                                                 *)
(***************************************************************************)
Conns == 1..MaxConns
Groups == {1, 2}

\* the users table: A, B and C are active, I is not; X has no row
UsersTable == [u \in Users \cup {"I"} |-> [is_active |-> u \in Users]]

\* a token: what jwt.decode makes of it, and the `sub' claim it carries
Token(kind, sub) == [kind |-> kind, sub |-> sub]

\* decode_access_token: the payload, or JWTError for a token that is expired,
\* has a bad signature or is no token at all
JWTError == [error |-> TRUE, sub |-> NoneStr]

decode_access_token(token) ==
    IF token.kind = "valid" THEN [error |-> FALSE, sub |-> token.sub] ELSE JWTError

NoUser == NoneStr

\* the lookup without the is_active test
get_websocket_user_any(token) ==
    LET payload == decode_access_token(token)
    IN  IF payload.error THEN NoUser
        ELSE IF payload.sub = NoneStr THEN NoUser
        ELSE IF ~(payload.sub \in DOMAIN UsersTable) THEN NoUser
        ELSE payload.sub

\* get_websocket_user: the user of the token, or None
get_websocket_user(token) ==
    LET payload == decode_access_token(token)
    IN  IF payload.error THEN NoUser
        ELSE IF payload.sub = NoneStr THEN NoUser
        ELSE IF ~(payload.sub \in DOMAIN UsersTable) THEN NoUser
        ELSE IF ~UsersTable[payload.sub].is_active THEN NoUser
        ELSE payload.sub

\* the chat_groups and chat_group_members tables that the connections find:
\* group 1 was created by A, who added B and I; group 2 was created by B
SeededGroups ==
    <<[group_type |-> "user_created", is_private |-> FALSE,
       created_by_id |-> "A", managed_by_id |-> NoneStr],
      [group_type |-> "user_created", is_private |-> FALSE,
       created_by_id |-> "B", managed_by_id |-> NoneStr]>>

SeededMembers ==
    <<[group_id |-> 1, user_id |-> "A", is_admin |-> TRUE],
      [group_id |-> 1, user_id |-> "B", is_admin |-> FALSE],
      [group_id |-> 1, user_id |-> "I", is_admin |-> FALSE],
      [group_id |-> 2, user_id |-> "B", is_admin |-> TRUE]>>

\* the seeded chat_group_members table as pairs <<group_id, user_id>>
ChatGroupMembers ==
    {<<SeededMembers[i].group_id, SeededMembers[i].user_id>> : i \in 1..Len(SeededMembers)}

\* the rows of chat_group_members for group g and user u, by their position
MemberRows(tbl, g, u) ==
    {i \in 1..Len(tbl) : tbl[i].group_id = g /\ tbl[i].user_id = u}

\* db.query(ChatGroupMember).filter(group_id, user_id).first() is not None
membership(g, u) == MemberRows(chat_group_members, g, u) # {}

\* the events that are sent to connections
NoEvent == [type |-> "-", user |-> "-", group_id |-> 0, is_typing |-> FALSE, message_id |-> 0]

UserJoinedWebSocket(u, g) == [NoEvent EXCEPT !.type = "user_joined", !.user = u, !.group_id = g]

UserLeftWebSocket(u, g) == [NoEvent EXCEPT !.type = "user_left", !.user = u, !.group_id = g]

TypingWebSocket(u, g, flag) ==
    [NoEvent EXCEPT !.type = "typing", !.user = u, !.group_id = g, !.is_typing = flag]

ChatMessageWebSocket(u, g, id) ==
    [NoEvent EXCEPT !.type = "message", !.user = u, !.group_id = g, !.message_id = id]

\* a row of chat_messages
ChatMessage(g, u, content) == [group_id |-> g, sender_id |-> u, content |-> content]

\* ChatMessageSchema.model_validate: content is Field(..., min_length=1)
ChatMessageSchemaValid(row) == row.content # ""

\* a connection and its task.  pc: "new" before the handler runs, "open" in
\* `await websocket.receive_text()', "bcast" in an `await connection.send_text()'
\* of broadcast_to_group, "closed" when the handler is over; code is the code
\* of websocket.close(), 0 without one.  client is "up" until the peer goes
\* away.  after, event, todo and failed are the locals of
\* the broadcast under way: where the handler goes on after it, the message,
\* the copy of the connection set, its connections not yet visited and the set
\* `disconnected'.  attempted is the log of that broadcast: the connections
\* that send_text was called for.
NewConn ==
    [pc |-> "new", code |-> 0, group_id |-> 0, user |-> NoUser, client |-> "up",
     after |-> "-", event |-> NoEvent, copy |-> {}, todo |-> {}, failed |-> {},
     attempted |-> {}]

WS_1008_POLICY_VIOLATION == 1008
WS_1011_INTERNAL_ERROR == 1011

\* the handler is over: nothing of the task is left but the close code
Closed(code) == [NewConn EXCEPT !.pc = "closed", !.code = code, !.client = "gone"]

\* the handler leaves broadcast_to_group
Leave(cn, pc) ==
    IF pc = "closed" THEN Closed(0)
    ELSE [cn EXCEPT !.pc = pc, !.after = "-", !.event = NoEvent, !.copy = {},
                    !.todo = {}, !.failed = {}, !.attempted = {}]

\* an exception leaves broadcast_to_group: in the connect phase the handler
\* closes with 1011 (lines 155-157), in the receive loop it goes on (lines
\* 216-218), in the disconnect handler it ends with the exception
Raise(cn) ==
    IF cn.after = "open" /\ cn.event.type = "user_joined"
    THEN Closed(WS_1011_INTERNAL_ERROR)
    ELSE Leave(cn, cn.after)

\* the record of the sends: for every connection the events that send_text
\* was called with for it, in the order of the calls.  It is kept only where
\* `on' is set; elsewhere it stays empty.
NoLog == [on |-> FALSE, log |-> [c \in Conns |-> <<>>]]

Sent(dl, d, ev) == IF dl.on THEN [dl EXCEPT !.log[d] = Append(@, ev)] ELSE dl

\* line 75: connection.send_text(...) is called for connection d
Attempt(cn, d) == [cn EXCEPT !.attempted = @ \cup {d}]

\* what the send can do: it returns, or it raises; it can raise only when the
\* peer of d is gone or d was closed by its handler
SendOutcomes(d) ==
    IF conn[d].client = "up" /\ conn[d].pc \in {"open", "bcast"}
    THEN {"ok"} ELSE {"ok", "raise"}

\* the loop that skips nothing
broadcast_targets_all(copy, exclude) == copy

\* lines 71-73: the connections of the copy but `exclude'
broadcast_targets(copy, exclude) == copy \ {exclude}

\* the cleanup that leaves the reverse map alone
forget_users_none(wu, failed) == wu

\* lines 83-84: del self.websocket_users[connection] for the failed ones
forget_users(wu, failed) == [k \in DOMAIN wu \ failed |-> wu[k]]

\* line 82: self.active_connections[group_id].discard(connection)
discard_connections(ac, g, failed) == [ac EXCEPT ![g] = @ \ failed]

\* lines 80-84, after the last send: the failed connections are pruned.  With
\* the group entry gone, self.active_connections[group_id] raises KeyError
\* before anything is pruned.
Cleanup(c, ac, wu, cn) ==
    LET g == cn[c].event.group_id
        failed == cn[c].failed
    IN  /\ delivered' = delivered
        /\ IF failed = {}
           THEN /\ active_connections' = ac
                /\ websocket_users' = wu
                /\ conn' = [cn EXCEPT ![c] = Leave(@, cn[c].after)]
           ELSE IF ~(g \in DOMAIN ac)
           THEN /\ active_connections' = ac
                /\ websocket_users' = wu
                /\ conn' = [cn EXCEPT ![c] = Raise(@)]
           ELSE /\ active_connections' = discard_connections(ac, g, failed)
                /\ websocket_users' = forget_users(wu, failed)
                /\ conn' = [cn EXCEPT ![c] = Leave(@, cn[c].after)]

\* the loop that ends at the first send that raises
SendNext_abort(c, ac, wu, cn) ==
    \E d \in cn[c].todo : \E outcome \in SendOutcomes(d) :
        /\ conn' = [cn EXCEPT ![c] = Attempt(
                        [@ EXCEPT !.todo = IF outcome = "raise" THEN {} ELSE @ \ {d},
                                  !.failed = IF outcome = "raise" THEN @ \cup {d} ELSE @],
                        d)]
        /\ delivered' = Sent(delivered, d, cn[c].event)
        /\ active_connections' = ac
        /\ websocket_users' = wu

\* one pass of the loop of lines 71-78 in the task of c: the send to one
\* connection of cn[c].todo, with its outcome
SendNext(c, ac, wu, cn) ==
    \E d \in cn[c].todo : \E outcome \in SendOutcomes(d) :
        /\ conn' = [cn EXCEPT ![c] = Attempt(
                        [@ EXCEPT !.todo = @ \ {d},
                                  !.failed = IF outcome = "raise" THEN @ \cup {d} ELSE @],
                        d)]
        /\ delivered' = Sent(delivered, d, cn[c].event)
        /\ active_connections' = ac
        /\ websocket_users' = wu

\* broadcast_to_group(g, ev, exclude) called in the task of c with the maps ac
\* and wu, up to its first `await': nothing when the group has no entry, else
\* the copy and the first send; with nobody to send to, the call returns.
\* exclude is 0 for `exclude=None'.
broadcast_to_group(c, g, ev, exclude, after, ac, wu, cn) ==
    LET copy == IF g \in DOMAIN ac THEN ac[g] ELSE {}
        targets == broadcast_targets(copy, exclude)
        started == [cn EXCEPT ![c].pc = "bcast", ![c].after = after, ![c].event = ev,
                              ![c].copy = copy, ![c].todo = targets,
                              ![c].failed = {}, ![c].attempted = {}]
    IN  IF targets = {}
        THEN /\ active_connections' = ac
             /\ websocket_users' = wu
             /\ delivered' = delivered
             /\ conn' = [cn EXCEPT ![c] = Leave(@, after)]
        ELSE SendNext(c, ac, wu, started)

\* the task of c is resumed in broadcast_to_group: the next send, or the
\* cleanup and the rest of the handler up to its next `await'
BroadcastStep(c) ==
    /\ conn[c].pc = "bcast"
    /\ IF conn[c].todo # {}
       THEN SendNext(c, active_connections, websocket_users, conn)
       ELSE Cleanup(c, active_connections, websocket_users, conn)
    /\ UNCHANGED <<chat_messages, response>>
    /\ UNCHANGED dbvars

\* lines 119-157: accept, authenticate, check the membership, register in
\* both maps and start the user_joined broadcast
Connect(c, g, token) ==
    /\ conn[c].pc = "new"
    /\ LET user == get_websocket_user(token)
       IN  IF user = NoUser \/ ~membership(g, user)
           THEN \* websocket.close(code=status.WS_1008_POLICY_VIOLATION)
                /\ conn' = [conn EXCEPT ![c] = Closed(WS_1008_POLICY_VIOLATION)]
                /\ UNCHANGED <<active_connections, websocket_users, delivered>>
           ELSE LET ac == [k \in DOMAIN active_connections \cup {g} |->
                              IF k = g
                              THEN (IF g \in DOMAIN active_connections
                                    THEN active_connections[g] ELSE {}) \cup {c}
                              ELSE active_connections[k]]
                    wu == [k \in DOMAIN websocket_users \cup {c} |->
                              IF k = c THEN user ELSE websocket_users[k]]
                    cn == [conn EXCEPT ![c].group_id = g, ![c].user = user]
                IN  /\ broadcast_to_group(c, g, UserJoinedWebSocket(user, g), c,
                                          "open", ac, wu, cn)
    /\ UNCHANGED <<chat_messages, response>>
    /\ UNCHANGED dbvars

\* a payload: text that is no JSON, JSON that is no object, or an object with
\* the keys given; NoneStr for a key left out
Payload(form, type, is_typing, content) ==
    [form |-> form, type |-> type, is_typing |-> is_typing, content |-> content]

\* message_data.get(key, default)
Get(value, default) == IF value = NoneStr THEN default ELSE value

\* the branch taken when anything but "message" is handled as typing
dispatch_typing(message_type) ==
    IF message_type = "message" THEN "message" ELSE "typing"

\* lines 167 and 180: the branch for a message type
dispatch(message_type) ==
    IF message_type = "typing" THEN "typing"
    ELSE IF message_type = "message" THEN "message"
    ELSE "ignore"

\* the typing broadcast without `exclude'
typing_exclude_none(c) == 0

\* line 177: exclude=websocket
typing_exclude(c) == c

\* lines 162-218: one payload is received and handled, up to the next `await'
Receive(c, p) ==
    /\ conn[c].pc = "open"
    /\ conn[c].client = "up"
    /\ LET g == conn[c].group_id
           user == conn[c].user
           cn == conn
           branch == IF p.form = "object" THEN dispatch(Get(p.type, "")) ELSE "ignore"
       IN  /\ response' = [op |-> "receive_" \o branch, code |-> 0]
           /\ IF branch = "typing"
              THEN /\ broadcast_to_group(c, g,
                         TypingWebSocket(user, g, Get(p.is_typing, "false") = "true"),
                         typing_exclude(c), "open",
                         active_connections, websocket_users, cn)
                   /\ UNCHANGED chat_messages
              ELSE IF branch = "message"
              THEN LET db_message == ChatMessage(g, user, Get(p.content, ""))
                   IN  /\ chat_messages' = Append(chat_messages, db_message)
                       /\ IF ChatMessageSchemaValid(db_message)
                          THEN broadcast_to_group(c, g,
                                   ChatMessageWebSocket(user, g, Len(chat_messages) + 1),
                                   0, "open", active_connections, websocket_users, cn)
                          ELSE \* ValidationError, caught at line 216
                               /\ conn' = cn
                               /\ UNCHANGED <<active_connections, websocket_users, delivered>>
              ELSE \* JSONDecodeError, AttributeError or no branch
                   /\ conn' = cn
                   /\ UNCHANGED <<active_connections, websocket_users, chat_messages,
                                  delivered>>
    /\ UNCHANGED dbvars

\* the peer of c goes away
ClientClose(c) ==
    /\ conn[c].pc \in {"open", "bcast"}
    /\ conn[c].client = "up"
    /\ conn' = [conn EXCEPT ![c].client = "gone"]
    /\ UNCHANGED <<active_connections, websocket_users, chat_messages, response,
                   delivered>>
    /\ UNCHANGED dbvars

\* lines 46-57: manager.disconnect(websocket, group_id), the maps after it
disconnect(ac, c, g) ==
    IF g \in DOMAIN ac
    THEN IF ac[g] \ {c} = {}
         THEN [k \in DOMAIN ac \ {g} |-> ac[k]]
         ELSE [ac EXCEPT ![g] = @ \ {c}]
    ELSE ac

\* lines 220-228: receive_text raises WebSocketDisconnect; the connection is
\* taken out of the maps and, if it had a user there, user_left is broadcast
Disconnect(c) ==
    /\ conn[c].pc = "open"
    /\ conn[c].client = "gone"
    /\ LET g == conn[c].group_id
           user == IF c \in DOMAIN websocket_users THEN websocket_users[c] ELSE NoUser
           ac == disconnect(active_connections, c, g)
           wu == forget_users(websocket_users, {c})
       IN  IF user # NoUser
           THEN broadcast_to_group(c, g, UserLeftWebSocket(user, g), 0, "closed",
                                   ac, wu, conn)
           ELSE /\ active_connections' = ac
                /\ websocket_users' = wu
                /\ delivered' = delivered
                /\ conn' = [conn EXCEPT ![c] = Closed(0)]
    /\ UNCHANGED <<chat_messages, response>>
    /\ UNCHANGED dbvars

\* the registry of a process that has just started
InitMaps ==
    /\ active_connections = <<>>
    /\ websocket_users = <<>>
    /\ chat_messages = <<>>
    /\ conn = [c \in Conns |-> NewConn]

InitRegistry == InitMaps /\ delivered = NoLog

(***************************************************************************)
(* Chat groups and their members (app/api/routers/chat.py and              *)
(* app/api/routers/admin_chat.py).  A table is the sequence of its rows in *)
(* the order of their ids; the id of a group is its position.  A handler   *)
(* that raises HTTPException before db.commit() leaves the tables as they  *)
(* were.                                                                   *)
(***************************************************************************)
GroupType == {"user_created", "admin_managed", "instructor_managed"}

ChatGroup(type, private, creator, manager) ==
    [group_type |-> type, is_private |-> private,
     created_by_id |-> creator, managed_by_id |-> manager]

ChatGroupMember(g, u, adm) == [group_id |-> g, user_id |-> u, is_admin |-> adm]

\* utils/permissions.py
is_admin(u) == "admin" \in UserRoles[u]

is_admin_or_instructor(u) == UserRoles[u] \cap {"admin", "instructor"} # {}

can_manage_groups(u) == is_admin_or_instructor(u)

can_create_managed_groups(u) == is_admin_or_instructor(u)

\* db.query(User).filter(User.id == user_id).first() is not None
UserExists(u) == u \in DOMAIN UsersTable

\* .first() of a query for the rows of S: the row with the least id
First(S) == CHOOSE i \in S : \A j \in S : i <= j

\* db.delete(row) for the row at position i
DeleteRow(tbl, i) == SubSeq(tbl, 1, i - 1) \o SubSeq(tbl, i + 1, Len(tbl))

\* the rows of group g and user u of which is_admin is set
AdminRows(tbl, g, u) == {i \in MemberRows(tbl, g, u) : tbl[i].is_admin}

Reply(op, code) == response' = [op |-> op, code |-> code]

\* chat.py 28-55: the group and its creator as admin member
create_chat_group(actor, p) ==
    /\ chat_groups' = Append(chat_groups,
                          ChatGroup("user_created", p.is_private, actor, NoneStr))
    /\ chat_group_members' = Append(chat_group_members,
                          ChatGroupMember(Len(chat_groups) + 1, actor, TRUE))
    /\ Reply("create_chat_group", 201)

\* admin_chat.py 66-85: one row for every id of member_ids that is not the
\* creator, in the order of the list
initial_members(g, actor, ids) ==
    LET F[i \in 0..Len(ids)] ==
            IF i = 0 THEN <<>>
            ELSE IF ids[i] = actor THEN F[i - 1]
            ELSE Append(F[i - 1], ChatGroupMember(g, ids[i], FALSE))
    IN  F[Len(ids)]

\* admin_chat.py 26-102
create_managed_group(actor, p) ==
    IF ~can_create_managed_groups(actor)
    THEN Reply("create_managed_group", 403) /\ UNCHANGED chatvars
    ELSE IF p.group_type = "admin_managed" /\ ~is_admin(actor)
    THEN Reply("create_managed_group", 403) /\ UNCHANGED chatvars
    ELSE IF \E i \in 1..Len(p.member_ids) : ~UserExists(p.member_ids[i])
    THEN Reply("create_managed_group", 404) /\ UNCHANGED chatvars
    ELSE LET g == Len(chat_groups) + 1
         IN  /\ chat_groups' = Append(chat_groups,
                                   ChatGroup(p.group_type, p.is_private, actor, actor))
             /\ chat_group_members' =
                    Append(chat_group_members, ChatGroupMember(g, actor, TRUE))
                        \o initial_members(g, actor, p.member_ids)
             /\ Reply("create_managed_group", 201)

\* admin_chat.py 168-215: name, description and is_private are all that
\* ChatGroupUpdate carries
update_managed_group(actor, g, p) ==
    IF ~can_manage_groups(actor)
    THEN Reply("update_managed_group", 403) /\ UNCHANGED chatvars
    ELSE IF ~(g \in DOMAIN chat_groups)
    THEN Reply("update_managed_group", 404) /\ UNCHANGED chatvars
    ELSE IF ~is_admin(actor) /\ chat_groups[g].managed_by_id # actor
    THEN Reply("update_managed_group", 403) /\ UNCHANGED chatvars
    ELSE /\ chat_groups' = [chat_groups EXCEPT ![g].is_private = p.is_private]
         /\ UNCHANGED chat_group_members
         /\ Reply("update_managed_group", 200)

\* admin_chat.py 219-286
assign_user_to_group(actor, g, u) ==
    IF ~can_manage_groups(actor)
    THEN Reply("assign_user_to_group", 403) /\ UNCHANGED chatvars
    ELSE IF ~(g \in DOMAIN chat_groups)
    THEN Reply("assign_user_to_group", 404) /\ UNCHANGED chatvars
    ELSE IF chat_groups[g].group_type = "user_created"
    THEN Reply("assign_user_to_group", 400) /\ UNCHANGED chatvars
    ELSE IF ~is_admin(actor) /\ chat_groups[g].managed_by_id # actor
    THEN Reply("assign_user_to_group", 403) /\ UNCHANGED chatvars
    ELSE IF ~UserExists(u)
    THEN Reply("assign_user_to_group", 404) /\ UNCHANGED chatvars
    ELSE IF MemberRows(chat_group_members, g, u) # {}
    THEN Reply("assign_user_to_group", 400) /\ UNCHANGED chatvars
    ELSE /\ chat_group_members' =
                Append(chat_group_members, ChatGroupMember(g, u, FALSE))
         /\ UNCHANGED chat_groups
         /\ Reply("assign_user_to_group", 201)

\* admin_chat.py 342-347: user_id == group.managed_by_id
manager_protected(g, u) == u = chat_groups[g].managed_by_id

\* admin_chat.py 290-350
remove_user_from_group(actor, g, u) ==
    IF ~can_manage_groups(actor)
    THEN Reply("remove_user_from_group", 403) /\ UNCHANGED chatvars
    ELSE IF ~(g \in DOMAIN chat_groups)
    THEN Reply("remove_user_from_group", 404) /\ UNCHANGED chatvars
    ELSE IF chat_groups[g].group_type = "user_created"
    THEN Reply("remove_user_from_group", 400) /\ UNCHANGED chatvars
    ELSE IF ~is_admin(actor) /\ chat_groups[g].managed_by_id # actor
    THEN Reply("remove_user_from_group", 403) /\ UNCHANGED chatvars
    ELSE IF MemberRows(chat_group_members, g, u) = {}
    THEN Reply("remove_user_from_group", 404) /\ UNCHANGED chatvars
    ELSE IF manager_protected(g, u)
    THEN Reply("remove_user_from_group", 400) /\ UNCHANGED chatvars
    ELSE /\ chat_group_members' =
                DeleteRow(chat_group_members, First(MemberRows(chat_group_members, g, u)))
         /\ UNCHANGED chat_groups
         /\ Reply("remove_user_from_group", 204)

\* chat.py 213-286
add_group_member(actor, g, p) ==
    IF ~(g \in DOMAIN chat_groups)
    THEN Reply("add_group_member", 404) /\ UNCHANGED chatvars
    ELSE IF chat_groups[g].group_type # "user_created"
    THEN Reply("add_group_member", 403) /\ UNCHANGED chatvars
    ELSE IF AdminRows(chat_group_members, g, actor) = {}
    THEN Reply("add_group_member", 403) /\ UNCHANGED chatvars
    ELSE IF MemberRows(chat_group_members, g, p.user_id) # {}
    THEN Reply("add_group_member", 400) /\ UNCHANGED chatvars
    ELSE IF ~UserExists(p.user_id)
    THEN Reply("add_group_member", 404) /\ UNCHANGED chatvars
    ELSE /\ chat_group_members' =
                Append(chat_group_members, ChatGroupMember(g, p.user_id, p.is_admin))
         /\ UNCHANGED chat_groups
         /\ Reply("add_group_member", 201)

\* chat.py 290-354
remove_group_member(actor, g, u) ==
    IF ~(g \in DOMAIN chat_groups)
    THEN Reply("remove_group_member", 404) /\ UNCHANGED chatvars
    ELSE IF chat_groups[g].group_type # "user_created"
    THEN Reply("remove_group_member", 403) /\ UNCHANGED chatvars
    ELSE IF MemberRows(chat_group_members, g, actor) = {}
    THEN Reply("remove_group_member", 403) /\ UNCHANGED chatvars
    ELSE IF /\ u # actor
            /\ ~chat_group_members[First(MemberRows(chat_group_members, g, actor))].is_admin
    THEN Reply("remove_group_member", 403) /\ UNCHANGED chatvars
    ELSE IF MemberRows(chat_group_members, g, u) = {}
    THEN Reply("remove_group_member", 404) /\ UNCHANGED chatvars
    ELSE /\ chat_group_members' =
                DeleteRow(chat_group_members, First(MemberRows(chat_group_members, g, u)))
         /\ UNCHANGED chat_groups
         /\ Reply("remove_group_member", 204)

\* chat.py 486-536
join_public_group(actor, g) ==
    IF ~is_admin_or_instructor(actor)
    THEN Reply("join_public_group", 403) /\ UNCHANGED chatvars
    ELSE IF ~(g \in DOMAIN chat_groups)
    THEN Reply("join_public_group", 404) /\ UNCHANGED chatvars
    ELSE IF chat_groups[g].is_private
    THEN Reply("join_public_group", 403) /\ UNCHANGED chatvars
    ELSE IF MemberRows(chat_group_members, g, actor) # {}
    THEN Reply("join_public_group", 400) /\ UNCHANGED chatvars
    ELSE /\ chat_group_members' =
                Append(chat_group_members, ChatGroupMember(g, actor, FALSE))
         /\ UNCHANGED chat_groups
         /\ Reply("join_public_group", 201)

\* a request of the chat group handlers: the registration tables and the
\* realtime registry stay as they are
ChatRequest(handler) ==
    /\ handler
    /\ UNCHANGED regvars
    /\ UNCHANGED wsvars
    /\ UNCHANGED rlvars

(***************************************************************************)
(* The rate limiter of production (app/middleware/redis_rate_limit.py,     *)
(* added by app/main.py 62-66).  Redis keeps one sorted set for every      *)
(* client address; a sorted set maps a member to its score and is the set  *)
(* of its [member, score] pairs here.  A key that was given a time to live *)
(* is gone when the time is over.  `time' is the clock in whole seconds,   *)
(* the int(time.time()) of line 69.                                        *)
(***************************************************************************)
calls == 2     \* self.calls, 100 unless RATE_LIMIT_CALLS is set
period == 2    \* self.period in seconds, 60 unless RATE_LIMIT_PERIOD is set

ClientIps == {"10.0.0.1", "10.0.0.2"}
Paths == {"/health", "/api/events"}

\* line 68
rate_limit_key(client_ip) == "rate_limit:" \o client_ip

NoKey == [zset |-> {}, expire_at |-> NoneInt]

\* the key as Redis finds it at time t
Live(k, t) == IF k.expire_at # NoneInt /\ t >= k.expire_at THEN NoKey ELSE k

zremrangebyscore(z, lo, hi) == {m \in z : ~(lo <= m.score /\ m.score <= hi)}

zcard(z) == Cardinality(z)

zadd(z, member, score) ==
    {m \in z : m.member # member} \cup {[member |-> member, score |-> score]}

\* lines 72-86: the four commands of the pipeline, in order
pipeline(k, current_time) ==
    LET before == Live(k, current_time).zset
        cleaned == zremrangebyscore(before, 0, current_time - period)
    IN  [count |-> zcard(cleaned),
         key |-> [zset |-> zadd(cleaned, ToString(current_time), current_time),
                  expire_at |-> current_time + period]]

\* lines 65-93 with Redis reachable: the answer and the key it leaves
is_rate_limited_redis(client_ip, current_time) ==
    LET results == pipeline(redis[rate_limit_key(client_ip)], current_time)
    IN  [limited |-> results.count >= calls, key |-> results.key]

\* lines 43-63: call_next is the application, which answers 200 here
rate_limit_dispatch(client_ip, path) ==
    IF path = "/health"
    THEN /\ Reply("dispatch", 200)
         /\ UNCHANGED <<redis, passed>>
    ELSE LET r == is_rate_limited_redis(client_ip, time)
         IN  /\ redis' = [redis EXCEPT ![rate_limit_key(client_ip)] = r.key]
             /\ IF r.limited
                THEN /\ Reply("dispatch", 429)
                     /\ UNCHANGED passed
                ELSE /\ Reply("dispatch", 200)
                     /\ passed' = [passed EXCEPT
                                     ![client_ip] = Append(@, time)]

\* a request of a client as the middleware receives it
Request(client_ip, path) ==
    /\ rate_limit_dispatch(client_ip, path)
    /\ UNCHANGED time
    /\ UNCHANGED <<regvars, chatvars, wsvars>>

\* one second passes
Tick ==
    /\ time' = time + 1
    /\ UNCHANGED <<redis, passed, response>>
    /\ UNCHANGED <<regvars, chatvars, wsvars>>

InitLimiter ==
    /\ redis = [k \in {rate_limit_key(ip) : ip \in ClientIps} |-> NoKey]
    /\ time = 0
    /\ passed = [ip \in ClientIps |-> <<>>]

(***************************************************************************)
(* The history of the requests served: the successful Register, Cancel    *)
(* and RecordAttendance calls in order, each with the user whose           *)
(* registration it is about, as long as no other call has succeeded and    *)
(* the history is no longer than MaxTrace.                                 *)
(***************************************************************************)
Other == <<[op |-> "other", user |-> "-"]>>

Succeeded == response'.code \in {200, 201, 204}

Observe(op, u) ==
    trace' = IF ~Succeeded THEN trace
             ELSE IF \/ trace = Other
                     \/ ~(op \in {"register", "cancel", "record_attendance"})
                     \/ Len(trace) >= MaxTrace
                  THEN Other
             ELSE Append(trace, [op |-> op, user |-> u])

\* the owner of registration rid, for the history
OwnerOf(rid) == IF rid \in DOMAIN regs THEN regs[rid].user_id ELSE "-"

(***************************************************************************)
(* Requests.  Each takes the inputs it tries from the sets it is given.    *)
(***************************************************************************)
EventIds == {1, 2}        \* ids that requests name; only event 1 exists
Capacities == {NoneInt} \cup 0..MaxCapacity

NoText ==
    [notes |-> NoneStr, emergency_contact |-> NoneStr,
     dietary_restrictions |-> NoneStr, special_needs |-> NoneStr]

\* RegistrationUpdate with the status and the one text field given
RegistrationUpdate(st, f, txt) ==
    [status |-> st,
     notes |-> IF f = "notes" THEN txt ELSE NoneStr,
     emergency_contact |-> IF f = "emergency_contact" THEN txt ELSE NoneStr,
     dietary_restrictions |-> IF f = "dietary_restrictions" THEN txt ELSE NoneStr,
     special_needs |-> IF f = "special_needs" THEN txt ELSE NoneStr]

StatusOnly == {RegistrationUpdate(st, "-", NoneStr) : st \in RegistrationStatus}

\* one caller without and one with the manage_events permission
Staff == {"A", "B"}

DoRegister(U, P, maxId) ==
    \E u \in U, e \in EventIds, p \in P :
        /\ Register(u, e, p)
        /\ nextRegId' <= maxId + 1
        /\ Observe("register", u)

DoCancel(maxId) ==
    \E actor \in Users, rid \in 1..maxId :
        Cancel(actor, rid) /\ Observe("cancel", OwnerOf(rid))

DoAdminUpdate(P, maxId) ==
    \E actor \in Staff, rid \in 1..maxId, p \in P :
        AdminUpdate(actor, rid, p) /\ Observe("update_registration", actor)

\* EventUpdate with the fields given; NoneInt for a field left out
EventUpdate(start, end, capacity) ==
    [start_time |-> start, end_time |-> end, capacity |-> capacity]

CapacityOnly == {EventUpdate(NoneInt, NoneInt, c) : c \in Capacities}

DoUpdateEvent(P) ==
    \E actor \in Staff, e \in EventIds, p \in P :
        UpdateEvent(actor, e, p) /\ Observe("update_event", actor)

DoCreateEvent(P, maxEvents) ==
    \E actor \in Staff, p \in P :
        /\ CreateEvent(actor, p)
        /\ Cardinality(DOMAIN events') <= maxEvents
        /\ Observe("create_event", actor)

DoRecordAttendance(maxId) ==
    \E actor \in Staff, rid \in 1..maxId, present \in BOOLEAN :
        RecordAttendance(actor, rid, present)
        /\ Observe("record_attendance", OwnerOf(rid))

InitDb(C) ==
    /\ events \in [{1} -> {Event("class", 1, 2, c) : c \in C}]
    /\ regs = <<>>
    /\ attendance = <<>>
    /\ nextRegId = 1
    /\ nextAttId = 1
    /\ response = [op |-> "none", code |-> 0]
    /\ trace = <<>>
    /\ reqs = <<>>
    /\ InitLimiter

\* the chat tables as the connections find them
InitChatSeeded ==
    /\ chat_groups = SeededGroups
    /\ chat_group_members = SeededMembers

InitTables(C) == InitDb(C) /\ InitRegistry /\ InitChatSeeded

(***************************************************************************)
(* Spec: Register, Cancel, AdminUpdate and update_event, served one        *)
(* request at a time.                                                      *)
(***************************************************************************)
Init == InitTables(Capacities)

Next ==
    \/ DoRegister({"A", "B"}, {NoText}, MaxRegId)
    \/ DoCancel(MaxRegId)
    \/ DoAdminUpdate(StatusOnly, MaxRegId)
    \/ DoUpdateEvent(CapacityOnly)

Spec == Init /\ [][Next]_vars

(***************************************************************************)
(* SpecAdmit: admission and cancellation alone, by three users.            *)
(***************************************************************************)
InitAdmit == InitTables(Capacities)

NextAdmit ==
    \/ DoRegister(Users, {NoText}, MaxAdmitRegId)
    \/ DoCancel(MaxAdmitRegId)

SpecAdmit == InitAdmit /\ [][NextAdmit]_vars

(***************************************************************************)
(* SpecAttend: registrations and their attendance records.                 *)
(***************************************************************************)
InitAttend == InitTables({NoneInt, 1})

NextAttend ==
    \/ DoRegister({"A", "B"}, {NoText}, MaxAttendRegId)
    \/ DoCancel(MaxAttendRegId)
    \/ DoAdminUpdate(StatusOnly, MaxAttendRegId)
    \/ DoRecordAttendance(MaxAttendRegId)

SpecAttend == InitAttend /\ [][NextAttend]_vars

(***************************************************************************)
(* SpecFields: AdminUpdate of the status and of the text fields.           *)
(***************************************************************************)
FullText ==
    [notes |-> "n0", emergency_contact |-> "e0",
     dietary_restrictions |-> "d0", special_needs |-> "s0"]

\* every status or none, with no text field, notes or special_needs
FieldUpdates ==
    {RegistrationUpdate(st, f, IF f = "-" THEN NoneStr ELSE "new") :
        st \in RegistrationStatus \cup {NoneStr},
        f \in {"-", "notes", "special_needs"}}

InitFields == InitTables({1})

NextFields ==
    \/ DoRegister({"A", "B"}, {FullText}, MaxFieldsRegId)
    \/ DoAdminUpdate(FieldUpdates, MaxFieldsRegId)

SpecFields == InitFields /\ [][NextFields]_vars

(***************************************************************************)
(* SpecStatus: Register and AdminUpdate, where the status of the update is *)
(* what RegistrationUpdate accepts: `status: Optional[str]', any string.   *)
(***************************************************************************)
\* a value of RegistrationStatus in capitals, and a word that is no status
OtherStrings == {"CONFIRMED", "archived"}

AnyStatus ==
    {RegistrationUpdate(st, "-", NoneStr) :
        st \in RegistrationStatus \cup OtherStrings \cup {NoneStr}}

InitStatus == InitTables({NoneInt, 1})

NextStatus ==
    \/ DoRegister({"A", "B"}, {NoText}, MaxStatusRegId)
    \/ DoAdminUpdate(AnyStatus, MaxStatusRegId)

SpecStatus == InitStatus /\ [][NextStatus]_vars

(***************************************************************************)
(* SpecEvents: create_event and update_event with the time window.         *)
(***************************************************************************)
Times == 1..MaxTime

\* EventCreate: a known or an unknown type, any two times, no or some capacity
EventCreates ==
    {Event(t, start, end, c) :
        t \in {"class", "party"}, start \in Times, end \in Times, c \in {NoneInt, 1}}

\* EventUpdate of the window: each time given or left out
WindowUpdates ==
    {EventUpdate(start, end, NoneInt) :
        start \in Times \cup {NoneInt}, end \in Times \cup {NoneInt}}

InitEvents == InitTables({NoneInt})

NextEvents ==
    \/ DoCreateEvent(EventCreates, MaxEvents)
    \/ DoUpdateEvent(WindowUpdates)

SpecEvents == InitEvents /\ [][NextEvents]_vars

(***************************************************************************)
(* SpecWs: the realtime registry under connects, typing and bad payloads,  *)
(* peers that go away, disconnects and broadcasts.  Connections are opened *)
(* in the order of their numbers; every task takes its steps whenever it   *)
(* can.                                                                    *)
(***************************************************************************)
\* tokens: of B, who is a member of both groups, of C, who is a member of
\* none, of the inactive user I, of the missing user X, without a `sub',
\* expired, and with a bad signature
WsTokens ==
    {Token("valid", "B"), Token("valid", "C"),
     Token("valid", "I"), Token("valid", "X"), Token("valid", NoneStr),
     Token("expired", "B"), Token("forged", "B")}

\* payloads that no branch handles: no JSON, JSON that is no object, an object
\* without a type and one with an unknown type
BadPayloads ==
    {Payload("not_json", NoneStr, NoneStr, NoneStr),
     Payload("not_object", NoneStr, NoneStr, NoneStr),
     Payload("object", NoneStr, NoneStr, NoneStr),
     Payload("object", "ping", "true", "hi")}

\* typing with the flag and without it
TypingPayloads ==
    {Payload("object", "typing", "true", NoneStr),
     Payload("object", "typing", NoneStr, NoneStr)}

\* messages with a content, with an empty one and without one
MessagePayloads ==
    {Payload("object", "message", NoneStr, "hi"),
     Payload("object", "message", NoneStr, ""),
     Payload("object", "message", NoneStr, NoneStr)}

DoConnect(T, G) ==
    \E c \in Conns, g \in G, token \in T :
        /\ \A k \in Conns : k < c => conn[k].pc # "new"
        /\ Connect(c, g, token)

DoReceive(P) ==
    \E c \in Conns, p \in P :
        /\ Receive(c, p)
        /\ Len(chat_messages') <= MaxMessages

DoClientClose == \E c \in Conns : ClientClose(c)

DoDisconnect == \E c \in Conns : Disconnect(c)

DoBroadcastStep == \E c \in Conns : BroadcastStep(c)

InitWs == InitTables({NoneInt})

NextWs ==
    \/ DoConnect(WsTokens, Groups)
    \/ DoReceive(BadPayloads \cup TypingPayloads)
    \/ DoClientClose
    \/ DoDisconnect
    \/ DoBroadcastStep

SpecWs == InitWs /\ [][NextWs]_vars

(***************************************************************************)
(* SpecWsMsg: the connections of A and B to group 1 and their messages.    *)
(***************************************************************************)
InitWsMsg == InitTables({NoneInt})

NextWsMsg ==
    \/ DoConnect({Token("valid", "A"), Token("valid", "B")}, {1})
    \/ DoReceive(MessagePayloads \cup TypingPayloads)
    \/ DoClientClose
    \/ DoDisconnect
    \/ DoBroadcastStep

SpecWsMsg == InitWsMsg /\ [][NextWsMsg]_vars

(***************************************************************************)
(* SpecWsFan: the connections of B to group 1 and messages that pass the   *)
(* schema, which are sent to every connection of the group.                *)
(***************************************************************************)
ValidMessages == {Payload("object", "message", NoneStr, "hi")}

InitWsFan == InitTables({NoneInt})

NextWsFan ==
    \/ DoConnect({Token("valid", "B")}, {1})
    \/ DoReceive(ValidMessages) /\ Len(chat_messages') <= MaxFanMessages
    \/ DoClientClose
    \/ DoDisconnect
    \/ DoBroadcastStep

SpecWsFan == InitWsFan /\ [][NextWsFan]_vars

(***************************************************************************)
(* SpecWsOrd: the connections of B to group 1 and their messages, with the *)
(* record of what is sent to every connection.                             *)
(***************************************************************************)
InitWsOrd ==
    /\ InitDb({NoneInt})
    /\ InitMaps
    /\ InitChatSeeded
    /\ delivered = [NoLog EXCEPT !.on = TRUE]

NextWsOrd ==
    \/ DoConnect({Token("valid", "B")}, {1})
    \/ DoReceive(ValidMessages)
    \/ DoClientClose
    \/ DoDisconnect
    \/ DoBroadcastStep

SpecWsOrd == InitWsOrd /\ [][NextWsOrd]_vars

(***************************************************************************)
(* SpecWsLive: SpecWsOrd where every task that can take a step of its      *)
(* handler does so in the end.  Nothing makes a peer send a payload or go  *)
(* away.                                                                   *)
(***************************************************************************)
SpecWsLive ==
    /\ InitWsOrd
    /\ [][NextWsOrd]_vars
    /\ WF_vars(DoBroadcastStep)
    /\ WF_vars(DoDisconnect)

(***************************************************************************)
(* SpecChat: the chat group handlers, one request at a time, from empty    *)
(* tables.  A is a student, B an instructor and C an admin; X has no row   *)
(* in the users table.                                                     *)
(***************************************************************************)
\* the group ids that requests name; the last one is never a group
GroupIds == 1..(MaxGroups + 1)

\* the user ids that requests name
UserIds == {"A", "B", "X"}

\* the lists of at most MaxMemberIds user ids, one that repeats an id included
MemberIdLists == UNION {[1..n -> UserIds] : n \in 0..MaxMemberIds}

ChatGroupCreate == {[is_private |-> b] : b \in BOOLEAN}

ChatGroupCreateAdmin ==
    {[group_type |-> t, is_private |-> TRUE, member_ids |-> ids] :
        t \in GroupType, ids \in MemberIdLists}

ChatGroupUpdate == {[is_private |-> b] : b \in BOOLEAN}

ChatGroupMemberCreate == {[user_id |-> u, is_admin |-> b] : u \in UserIds, b \in BOOLEAN}

DoCreateChatGroup ==
    \E actor \in Users, p \in ChatGroupCreate :
        /\ Len(chat_groups) < MaxGroups
        /\ ChatRequest(create_chat_group(actor, p))

DoCreateManagedGroup ==
    \E actor \in Users, p \in ChatGroupCreateAdmin :
        /\ Len(chat_groups) < MaxGroups
        /\ ChatRequest(create_managed_group(actor, p))

DoUpdateManagedGroup ==
    \E actor \in Users, g \in GroupIds, p \in ChatGroupUpdate :
        ChatRequest(update_managed_group(actor, g, p))

DoAssignUser ==
    \E actor \in Users, g \in GroupIds, u \in UserIds :
        ChatRequest(assign_user_to_group(actor, g, u))

DoRemoveUser(Actors, G, U) ==
    \E actor \in Actors, g \in G, u \in U :
        ChatRequest(remove_user_from_group(actor, g, u))

DoAddMember ==
    \E actor \in Users, g \in GroupIds, p \in ChatGroupMemberCreate :
        ChatRequest(add_group_member(actor, g, p))

DoRemoveMember(Actors, G, U) ==
    \E actor \in Actors, g \in G, u \in U :
        ChatRequest(remove_group_member(actor, g, u))

DoJoinPublicGroup ==
    \E actor \in Users, g \in GroupIds :
        ChatRequest(join_public_group(actor, g))

InitChat ==
    /\ InitDb({NoneInt})
    /\ InitRegistry
    /\ chat_groups = <<>>
    /\ chat_group_members = <<>>

NextChat ==
    \/ DoCreateChatGroup
    \/ DoCreateManagedGroup
    \/ DoUpdateManagedGroup
    \/ DoAssignUser
    \/ DoRemoveUser(Users, GroupIds, UserIds)
    \/ DoAddMember
    \/ DoRemoveMember(Users, GroupIds, UserIds)
    \/ DoJoinPublicGroup

SpecChat == InitChat /\ [][NextChat]_vars

(***************************************************************************)
(* SpecWsMember: the connections of B to group 1 and their messages, while *)
(* B is removed from group 1: by A, who is an admin of the group, by B,    *)
(* and through the admin endpoint by C.                                    *)
(***************************************************************************)
InitWsMember == InitTables({NoneInt})

NextWsMember ==
    \/ DoConnect({Token("valid", "B")}, {1})
    \/ DoReceive(ValidMessages) /\ Len(chat_messages') <= MaxFanMessages
    \/ DoClientClose
    \/ DoDisconnect
    \/ DoBroadcastStep
    \/ DoRemoveMember({"A", "B"}, {1}, {"B"})
    \/ DoRemoveUser({"C"}, {1}, {"B"})

SpecWsMember == InitWsMember /\ [][NextWsMember]_vars

(***************************************************************************)
(* SpecRate: requests of two clients to the rate limiter while the clock   *)
(* runs; several requests may arrive within one second.                    *)
(***************************************************************************)
DoRequest ==
    \E client_ip \in ClientIps, path \in Paths :
        /\ \A ip \in ClientIps : Len(passed[ip]) < MaxPassed
        /\ Request(client_ip, path)

DoTick == time < MaxClock /\ Tick

InitRate == InitTables({NoneInt})

NextRate == DoRequest \/ DoTick

SpecRate == InitRate /\ [][NextRate]_vars

(***************************************************************************)
(* SpecConc: register_for_event requests that run concurrently.  A request *)
(* is a sequence of database round trips; each sees what is committed at   *)
(* that moment, and round trips of different requests interleave.          *)
(***************************************************************************)
Slots == 1..MaxReqs

Idle == [pc |-> "idle", user |-> "-", event_id |-> 0, capacity |-> NoneInt,
         status |-> "-", code |-> 0]

\* the request ends with an HTTP status code
Finish(r, c) ==
    /\ reqs' = [reqs EXCEPT ![r].pc = "done", ![r].code = c]
    /\ response' = [op |-> "register", code |-> c]

\* lines 67-69: event = db.get(Event, payload.event_id)
RegGetEvent(r, u, e) ==
    /\ reqs[r].pc = "idle"
    /\ IF e \in DOMAIN events
       THEN /\ reqs' = [reqs EXCEPT ![r] = [pc |-> "check", user |-> u, event_id |-> e,
                                            capacity |-> events[e].capacity,
                                            status |-> "-", code |-> 0]]
            /\ UNCHANGED response
       ELSE /\ reqs' = [reqs EXCEPT ![r] = [pc |-> "done", user |-> u, event_id |-> e,
                                            capacity |-> NoneInt,
                                            status |-> "-", code |-> 404]]
            /\ response' = [op |-> "register", code |-> 404]
    /\ UNCHANGED <<events, regs, attendance, nextRegId, nextAttId, trace>>
    /\ UNCHANGED <<wsvars, chatvars, rlvars>>

\* lines 72-82: the select of an existing registration
RegCheckExisting(r) ==
    /\ reqs[r].pc = "check"
    /\ LET existing == ExistingRegistrations(regs, reqs[r].event_id, reqs[r].user)
       IN  IF Cardinality(existing) > 1 THEN Finish(r, 500)
           ELSE IF existing # {} THEN Finish(r, 400)
           ELSE /\ reqs' = [reqs EXCEPT ![r].pc = "count"]
                /\ UNCHANGED response
    /\ UNCHANGED <<events, regs, attendance, nextRegId, nextAttId, trace>>
    /\ UNCHANGED <<wsvars, chatvars, rlvars>>

\* lines 85-97: the count of CONFIRMED rows and the choice of the status
RegCountConfirmed(r) ==
    /\ reqs[r].pc = "count"
    /\ reqs' = [reqs EXCEPT ![r].pc = "insert",
                            ![r].status = initial_status(reqs[r].capacity,
                                              confirmed_count(regs, reqs[r].event_id))]
    /\ UNCHANGED <<events, regs, attendance, nextRegId, nextAttId, response, trace>>
    /\ UNCHANGED <<wsvars, chatvars, rlvars>>

\* lines 99-110: db.add(registration); db.commit()
RegCommit(r) ==
    /\ reqs[r].pc = "insert"
    /\ regs' = Insert(regs, nextRegId,
                      EventRegistration(reqs[r].event_id, reqs[r].user,
                                        reqs[r].status, NoText))
    /\ nextRegId' = nextRegId + 1
    /\ Finish(r, 201)
    /\ UNCHANGED <<events, attendance, nextAttId, trace>>
    /\ UNCHANGED <<wsvars, chatvars, rlvars>>

InitConc ==
    /\ events \in [{1} -> {Event("class", 1, 2, c) : c \in 1..MaxCapacity}]
    /\ regs = <<>>
    /\ attendance = <<>>
    /\ nextRegId = 1
    /\ nextAttId = 1
    /\ response = [op |-> "none", code |-> 0]
    /\ trace = <<>>
    /\ reqs = [r \in Slots |-> Idle]
    /\ InitRegistry
    /\ InitChatSeeded
    /\ InitLimiter

NextConc ==
    \/ \E r \in Slots, u \in Users, e \in EventIds : RegGetEvent(r, u, e)
    \/ \E r \in Slots : RegCheckExisting(r)
    \/ \E r \in Slots : RegCountConfirmed(r)
    \/ \E r \in Slots : RegCommit(r)

SpecConc == InitConc /\ [][NextConc]_vars

(***************************************************************************)
(* Properties                                                              *)
(***************************************************************************)
\* the registrations of event e that have status st
WithStatus(e, st) == {id \in DOMAIN regs : regs[id].event_id = e /\ regs[id].status = st}

\* the registrations of user u for event e
RowsOf(e, u) == {id \in DOMAIN regs : regs[id].event_id = e /\ regs[id].user_id = u}

\* the history is N successful Register calls and nothing else
OnlyRegisters ==
    /\ trace # Other
    /\ \A i \in 1..Len(trace) : trace[i].op = "register"

\* C1: sequential admission.  For an event with a non-null capacity C (C = 0
\* included) and no prior registrations, after N Register calls by N distinct
\* users, one after another, the CONFIRMED registrations are exactly the first
\* min(N, C) in arrival order and the other max(0, N - C) are WAITLIST.
C1_SequentialAdmission ==
    (OnlyRegisters /\ events[1].capacity # NoneInt) =>
        LET C == events[1].capacity
            N == Len(trace)
        IN  /\ DOMAIN regs = 1..N
            /\ WithStatus(1, CONFIRMED) = {id \in 1..N : id <= C}
            /\ WithStatus(1, WAITLIST) = {id \in 1..N : id > C}

\* C2: concurrent admission.  When C+1 Register requests by distinct users have
\* run concurrently against an event of capacity C and all have finished, the
\* event has exactly C CONFIRMED and 1 WAITLIST registrations.
C2_ConcurrentAdmission ==
    \A e \in DOMAIN events :
        LET C == events[e].capacity
            R == {r \in Slots : reqs[r].event_id = e}
        IN  ( /\ \A r \in Slots : reqs[r].pc = "done"
              /\ C # NoneInt
              /\ Cardinality(R) = C + 1
              /\ \A r1, r2 \in R : r1 # r2 => reqs[r1].user # reqs[r2].user )
            => /\ Cardinality(WithStatus(e, CONFIRMED)) = C
               /\ Cardinality(WithStatus(e, WAITLIST)) = 1

\* C3: capacity invariant.  In every state reachable by Register, Cancel,
\* AdminUpdate and update_event, an event whose capacity is non-null has at
\* most that many CONFIRMED registrations.
C3_CapacityInvariant ==
    \A e \in DOMAIN events :
        events[e].capacity # NoneInt =>
            Cardinality(WithStatus(e, CONFIRMED)) <= events[e].capacity

\* C4: duplicate rejection.  A Register for an (event, user) pair that already
\* has a registration row, whatever the status of that row, is answered with an
\* error, creates no row and changes no row.
C4_DuplicateRejected ==
    [][\A u \in Users, e \in EventIds :
          (response'.op = "register" /\ RowsOf(e, u) # {} /\ Register(u, e, NoText)) =>
              /\ response' = [op |-> "register", code |-> 400]
              /\ regs' = regs
              /\ nextRegId' = nextRegId
              /\ attendance' = attendance]_vars

\* C4 witness: a Register was just rejected while every row there is, the
\* one of the rejected user included, has status CANCELLED
C4_Witness ==
    /\ response = [op |-> "register", code |-> 400]
    /\ DOMAIN regs # {}
    /\ \A id \in DOMAIN regs : regs[id].status = CANCELLED

\* C5: registration uniqueness under interleaving.  In every reachable state,
\* also when two Register requests for the same (event, user) pair run
\* concurrently, there is at most one registration row per (event, user).
C5_RegistrationUnique ==
    \A e \in EventIds, u \in Users : Cardinality(RowsOf(e, u)) <= 1

\* C6: cancel then re-register.  After a successful Cancel neither the
\* registration row nor an attendance record of it exists and the user has no
\* row left for the event; a Register by a user without a row for the event is
\* accepted and creates one new row, whose status the capacity check of that
\* moment decides.
C6_CancelThenReRegister ==
    [][ /\ \A actor \in Users, rid \in DOMAIN regs :
            (response' = [op |-> "cancel", code |-> 204] /\ Cancel(actor, rid)) =>
                /\ ~(rid \in DOMAIN regs')
                /\ \A a \in DOMAIN attendance' : attendance'[a].registration_id # rid
                /\ \A id \in DOMAIN regs' :
                      ~(regs'[id].event_id = regs[rid].event_id
                        /\ regs'[id].user_id = regs[rid].user_id)
        /\ \A u \in Users, e \in DOMAIN events :
            (response'.op = "register" /\ RowsOf(e, u) = {} /\ Register(u, e, NoText)) =>
                /\ response' = [op |-> "register", code |-> 201]
                /\ ~(nextRegId \in DOMAIN regs)
                /\ DOMAIN regs' = DOMAIN regs \cup {nextRegId}
                /\ \A id \in DOMAIN regs : regs'[id] = regs[id]
                /\ regs'[nextRegId].event_id = e
                /\ regs'[nextRegId].user_id = u
                /\ regs'[nextRegId].status =
                      IF events[e].capacity = NoneInt THEN CONFIRMED
                      ELSE IF Cardinality(WithStatus(e, CONFIRMED)) < events[e].capacity
                           THEN CONFIRMED
                           ELSE WAITLIST ]_vars

\* C6 witness: A registered, had attendance recorded, cancelled and has just
\* registered again
C6_Witness ==
    /\ trace = <<[op |-> "register", user |-> "A"],
                 [op |-> "record_attendance", user |-> "A"],
                 [op |-> "cancel", user |-> "A"],
                 [op |-> "register", user |-> "A"]>>
    /\ response = [op |-> "register", code |-> 201]
    /\ attendance = <<>>

\* the scenario of C7: Register A, B, C, Cancel A, Register A
Scenario ==
    <<[op |-> "register", user |-> "A"], [op |-> "register", user |-> "B"],
      [op |-> "register", user |-> "C"], [op |-> "cancel", user |-> "A"],
      [op |-> "register", user |-> "A"]>>

StatusOf(e, u, st) ==
    /\ RowsOf(e, u) # {}
    /\ \A id \in RowsOf(e, u) : regs[id].status = st

\* C7: no automatic promotion.  A Cancel leaves the status of every other
\* registration unchanged; with capacity 2, after Register A, Register B,
\* Register C, Cancel A and Register A, A's new registration is CONFIRMED and
\* C's is still WAITLIST.
C7_NoAutoPromotion ==
    /\ [][\A actor \in Users, rid \in DOMAIN regs :
            (response' = [op |-> "cancel", code |-> 204] /\ Cancel(actor, rid)) =>
                \A id \in DOMAIN regs \ {rid} :
                    id \in DOMAIN regs' /\ regs'[id].status = regs[id].status]_vars
    /\ []((trace = Scenario /\ events[1].capacity = 2) =>
            /\ StatusOf(1, "A", CONFIRMED)
            /\ StatusOf(1, "B", CONFIRMED)
            /\ StatusOf(1, "C", WAITLIST))

\* C7 witness: the scenario has been played on an event of capacity 2
C7_Witness == trace = Scenario /\ events[1].capacity = 2

\* C8: cancel authorization.  Cancel of a missing registration fails with 404;
\* Cancel by an actor who neither owns the registration nor holds manage_events
\* or the admin role fails with 403; neither deletes or changes a registration
\* or an attendance record.
C8_CancelAuthorization ==
    [][\A actor \in Users, rid \in 1..(MaxAttendRegId + 1) :
          (response'.op = "cancel" /\ Cancel(actor, rid)) =>
              /\ ~(rid \in DOMAIN regs) =>
                    /\ response' = [op |-> "cancel", code |-> 404]
                    /\ regs' = regs /\ attendance' = attendance
              /\ ( /\ rid \in DOMAIN regs
                   /\ regs[rid].user_id # actor
                   /\ ~("manage_events" \in user_permissions(actor))
                   /\ ~("admin" \in UserRoles[actor]) ) =>
                    /\ response' = [op |-> "cancel", code |-> 403]
                    /\ regs' = regs /\ attendance' = attendance]_vars

\* C8 witness: a Cancel was just refused with 403 while a registration with an
\* attendance record exists
C8_Witness ==
    /\ response = [op |-> "cancel", code |-> 403]
    /\ \E a \in DOMAIN attendance : attendance[a].registration_id \in DOMAIN regs

\* C9: attendance at most once.  RecordAttendance (by a caller with
\* manage_events) for a registration without an attendance record succeeds and
\* creates exactly one record, whatever the registration's status; for a
\* registration that has one it is rejected and creates nothing; for a missing
\* registration it fails with 404 and creates nothing.
C9_AttendanceOnce ==
    [][\A actor \in Staff, rid \in 1..(MaxAttendRegId + 1), present \in BOOLEAN :
          (/\ response'.op = "record_attendance"
           /\ "manage_events" \in user_permissions(actor)
           /\ RecordAttendance(actor, rid, present)) =>
              LET recorded == {a \in DOMAIN attendance :
                                  attendance[a].registration_id = rid}
              IN  /\ ~(rid \in DOMAIN regs) =>
                        /\ response' = [op |-> "record_attendance", code |-> 404]
                        /\ attendance' = attendance
                  /\ (rid \in DOMAIN regs /\ recorded # {}) =>
                        /\ response' = [op |-> "record_attendance", code |-> 400]
                        /\ attendance' = attendance
                  /\ (rid \in DOMAIN regs /\ recorded = {}) =>
                        /\ response' = [op |-> "record_attendance", code |-> 201]
                        /\ \A a \in DOMAIN attendance :
                              a \in DOMAIN attendance' /\ attendance'[a] = attendance[a]
                        /\ \E a \in DOMAIN attendance' \ DOMAIN attendance :
                              /\ DOMAIN attendance' = DOMAIN attendance \cup {a}
                              /\ attendance'[a].registration_id = rid
                              /\ attendance'[a].was_present = present]_vars

\* C9 witness: attendance was just recorded for a registration whose status is
\* CANCELLED
C9_Witness ==
    /\ response = [op |-> "record_attendance", code |-> 201]
    /\ (nextAttId - 1) \in DOMAIN attendance
    /\ attendance[nextAttId - 1].registration_id \in DOMAIN regs
    /\ regs[attendance[nextAttId - 1].registration_id].status = CANCELLED

\* C10: AdminUpdate is unconstrained and framed.  On an existing registration
\* an AdminUpdate (by a caller with manage_events) that gives a status succeeds
\* and sets exactly that status, from any status and whatever the capacity and
\* the CONFIRMED count; every field the request does not give, and every other
\* registration, is left unchanged.
C10_AdminUpdateFramed ==
    [][\A actor \in Staff, rid \in DOMAIN regs, p \in FieldUpdates :
          (/\ response'.op = "update_registration"
           /\ "manage_events" \in user_permissions(actor)
           /\ AdminUpdate(actor, rid, p)) =>
              /\ response' = [op |-> "update_registration", code |-> 200]
              /\ DOMAIN regs' = DOMAIN regs
              /\ \A id \in DOMAIN regs \ {rid} : regs'[id] = regs[id]
              /\ p.status # NoneStr => regs'[rid].status = p.status
              /\ p.status = NoneStr => regs'[rid].status = regs[rid].status
              /\ \A f \in TextFields :
                    regs'[rid][f] = IF p[f] = NoneStr THEN regs[rid][f] ELSE p[f]
              /\ regs'[rid].event_id = regs[rid].event_id
              /\ regs'[rid].user_id = regs[rid].user_id
              /\ events' = events /\ attendance' = attendance]_vars

\* C10 witness: an AdminUpdate has just succeeded and the event of capacity 1
\* has two CONFIRMED registrations, one of them with a text field updated and
\* the others as registered
C10_Witness ==
    /\ response = [op |-> "update_registration", code |-> 200]
    /\ events[1].capacity = 1
    /\ Cardinality(WithStatus(1, CONFIRMED)) = 2
    /\ \E id \in DOMAIN regs :
          /\ regs[id].notes = "new"
          /\ regs[id].emergency_contact = "e0"

\* C11: status domain.  In every state reachable by Register and AdminUpdate
\* the status of every registration is one of PENDING, CONFIRMED, WAITLIST and
\* CANCELLED.
C11_StatusDomain ==
    \A id \in DOMAIN regs : regs[id].status \in RegistrationStatus

\* C12 as claimed: no resurrection.  Once a registration row has status
\* CANCELLED no later operation gives that row another status; the user holds a
\* non-cancelled registration for the event again only through a new row.
C12_NoResurrection ==
    [][\A id \in DOMAIN regs :
          regs[id].status = CANCELLED =>
              /\ id \in DOMAIN regs' => regs'[id].status = CANCELLED
              /\ \A id2 \in DOMAIN regs' :
                    ( /\ regs'[id2].event_id = regs[id].event_id
                      /\ regs'[id2].user_id = regs[id].user_id
                      /\ regs'[id2].status # CANCELLED ) => ~(id2 \in DOMAIN regs)]_vars

\* C12: no resurrection but by AdminUpdate.  A row with status CANCELLED gets
\* another status only by a successful AdminUpdate of that row that gives the
\* status; Register, Cancel and update_event never change the status of a row,
\* and a new row is created only for an (event, user) pair that has no row.
C12_NoResurrectionButAdmin ==
    [][ /\ \A id \in DOMAIN regs :
            ( /\ regs[id].status = CANCELLED
              /\ id \in DOMAIN regs'
              /\ regs'[id].status # CANCELLED ) =>
                /\ response' = [op |-> "update_registration", code |-> 200]
                /\ \E actor \in Staff, p \in StatusOnly :
                      /\ p.status = regs'[id].status
                      /\ "manage_events" \in user_permissions(actor)
                      /\ AdminUpdate(actor, id, p)
        /\ response'.op # "update_registration" =>
              \A id \in DOMAIN regs \cap DOMAIN regs' :
                  regs'[id].status = regs[id].status
        /\ \A id2 \in DOMAIN regs' \ DOMAIN regs :
              /\ RowsOf(regs'[id2].event_id, regs'[id2].user_id) = {}
              /\ response' = [op |-> "register", code |-> 201] ]_vars

\* C12 witness: a Register of the owner of a CANCELLED row was just refused
\* while another user holds a CONFIRMED registration
C12_Witness ==
    /\ response = [op |-> "register", code |-> 400]
    /\ \E id \in DOMAIN regs : regs[id].status = CANCELLED
    /\ \E id \in DOMAIN regs : regs[id].status = CONFIRMED

\* C13: event time window.  In every state reachable by create_event and
\* update_event every stored event has start_time strictly before end_time; a
\* create or update that would store start_time >= end_time is rejected and
\* stores nothing.
C13_EventTimeWindow ==
    /\ [](\A e \in DOMAIN events : events[e].start_time < events[e].end_time)
    /\ [][\A actor \in Staff :
            /\ \A p \in EventCreates :
                  (response'.op = "create_event" /\ ~(p.start_time < p.end_time)
                   /\ CreateEvent(actor, p)) =>
                      (~Succeeded /\ events' = events)
            /\ \A e \in DOMAIN events, q \in WindowUpdates :
                  (response'.op = "update_event"
                   /\ ~(apply_event_update(events[e], q).start_time
                          < apply_event_update(events[e], q).end_time)
                   /\ UpdateEvent(actor, e, q)) =>
                      (~Succeeded /\ events' = events)]_vars

\* connection c is in the connection set of some group
Registered(c) == \E g \in DOMAIN active_connections : c \in active_connections[g]

\* the connection set of group g; empty without an entry
ConnectionsOf(ac, g) == IF g \in DOMAIN ac THEN ac[g] ELSE {}

\* C14: registry two-map consistency.  In every state reachable by any
\* interleaving of Connect, Receive, Disconnect and Broadcast, the pruning of
\* failed connections included, a connection has an entry in the
\* connection-to-user map if and only if it is in the connection set of some
\* group of the group-to-connections map.
C14_TwoMapConsistency ==
    \A c \in Conns : c \in DOMAIN websocket_users <=> Registered(c)

\* C14 witness: a connection whose task is still running has been pruned from
\* both maps by a broadcast of a connection that is registered
C14_Witness ==
    \E c, d \in Conns :
        /\ conn[c].pc \in {"open", "bcast"}
        /\ ~Registered(c)
        /\ ~(c \in DOMAIN websocket_users)
        /\ Registered(d)

\* the credential does not give an active user who is a member of group g
BadCredential(token, g) ==
    \/ token.kind # "valid"
    \/ token.sub = NoneStr
    \/ ~(token.sub \in DOMAIN UsersTable)
    \/ ~UsersTable[token.sub].is_active
    \/ ~(<<g, token.sub>> \in ChatGroupMembers)

\* C15: Connect fails closed.  A Connect whose credential is invalid, expired
\* or resolves to a missing or inactive user, and a Connect by a user who is no
\* member of the group, ends with the connection closed with the
\* policy-violation code, both registry maps unchanged and no event sent to
\* any connection.
C15_ConnectFailsClosed ==
    [][\A c \in Conns, g \in Groups, token \in WsTokens :
          ( /\ conn[c].pc = "new"
            /\ conn'[c].pc # "new"
            /\ BadCredential(token, g)
            /\ Connect(c, g, token) ) =>
              /\ conn'[c].pc = "closed"
              /\ conn'[c].code = 1008
              /\ conn'[c].attempted = {}
              /\ active_connections' = active_connections
              /\ websocket_users' = websocket_users
              /\ \A d \in Conns \ {c} : conn'[d] = conn[d]]_vars

\* C15 witness: a connection was refused with 1008 while another connection
\* is registered
C15_Witness ==
    \E c, d \in Conns :
        /\ conn[c].pc = "closed"
        /\ conn[c].code = 1008
        /\ Registered(d)

\* the task of c, in a broadcast, calls send_text for one connection not yet
\* visited, or with none left ends the broadcast
OneSendOrEnd(c) ==
    IF conn[c].todo # {}
    THEN \E d \in conn[c].todo :
            /\ ~(d \in conn[c].attempted)
            /\ conn'[c].attempted = conn[c].attempted \cup {d}
            /\ conn'[c].todo = conn[c].todo \ {d}
            /\ conn'[c].pc = "bcast"
            /\ conn'[c].event = conn[c].event
    ELSE conn'[c].pc # "bcast"

\* the task of c has started the broadcast of ev to the connections of
\* targets: it has called send_text for one of them and has the others left
\* to visit; with no targets it has sent nothing and is at `after'
BroadcastStarted(c, ev, targets, after) ==
    IF targets = {}
    THEN conn'[c].pc = after /\ conn'[c].attempted = {}
    ELSE /\ conn'[c].pc = "bcast"
         /\ conn'[c].event = ev
         /\ conn'[c].attempted \cup conn'[c].todo = targets
         /\ conn'[c].attempted \cap conn'[c].todo = {}
         /\ Cardinality(conn'[c].attempted) = 1

\* C16: join notification.  A successful Connect to group g registers the new
\* connection and sends one user_joined event to every other connection that
\* is registered in g at that moment, and never one to the connecting
\* connection itself.
C16_JoinNotification ==
    /\ [][\A c \in Conns, g \in Groups, token \in WsTokens :
            ( /\ conn[c].pc = "new"
              /\ conn'[c].pc \in {"open", "bcast"}
              /\ Connect(c, g, token) ) =>
                /\ g \in DOMAIN active_connections'
                /\ active_connections'[g] = ConnectionsOf(active_connections, g) \cup {c}
                /\ c \in DOMAIN websocket_users'
                /\ websocket_users'[c] = token.sub
                /\ BroadcastStarted(c, UserJoinedWebSocket(token.sub, g),
                                    ConnectionsOf(active_connections, g) \ {c}, "open")]_vars
    /\ [][\A c \in Conns :
            ( /\ conn[c].pc = "bcast"
              /\ conn[c].event.type = "user_joined"
              /\ BroadcastStep(c) ) => OneSendOrEnd(c)]_vars
    /\ [](\A c \in Conns :
            conn[c].event.type = "user_joined" =>
                ~(c \in conn[c].attempted \cup conn[c].todo))

\* C16 witness: the task of a connection has sent user_joined to the other
\* connection of the group and has nobody left to send it to
C16_Witness ==
    \E c, d \in Conns :
        /\ c # d
        /\ conn[c].pc = "bcast"
        /\ conn[c].event.type = "user_joined"
        /\ conn[c].attempted = {d}
        /\ conn[c].todo = {}
        /\ Registered(c)

\* C17: message persist-and-broadcast.  Every payload of type message received
\* on a registered connection, whatever its content, an empty or absent one
\* included, persists exactly one ChatMessage (of the group of the connection
\* and of its user) and then sends that message to every connection registered
\* in the group, the one of the sender included.
C17_MessagePersistAndBroadcast ==
    [][\A c \in Conns, p \in MessagePayloads :
          ( /\ conn[c].pc = "open"
            /\ Registered(c)
            /\ response'.op = "receive_message"
            /\ Receive(c, p) ) =>
              LET g == conn[c].group_id
              IN  /\ Len(chat_messages') = Len(chat_messages) + 1
                  /\ \A i \in 1..Len(chat_messages) : chat_messages'[i] = chat_messages[i]
                  /\ chat_messages'[Len(chat_messages')].group_id = g
                  /\ chat_messages'[Len(chat_messages')].sender_id = websocket_users[c]
                  /\ c \in ConnectionsOf(active_connections, g)
                  /\ BroadcastStarted(c,
                        ChatMessageWebSocket(websocket_users[c], g, Len(chat_messages')),
                        ConnectionsOf(active_connections, g), "open")]_vars

C19_BadPayloadIgnored ==
    [][\A c \in Conns, p \in BadPayloads :
          ( /\ conn[c].pc = "open"
            /\ response'.op # "none"
            /\ (p.form # "object" \/ ~(p.type \in {"typing", "message"}))
            /\ Receive(c, p) ) =>
              /\ conn' = conn
              /\ conn'[c].pc = "open"
              /\ active_connections' = active_connections
              /\ websocket_users' = websocket_users
              /\ chat_messages' = chat_messages]_vars

\* C19 witness: a payload was just ignored while two connections are
\* registered in one group, both in their receive loops
C19_Witness ==
    /\ response.op = "receive_ignore"
    /\ \E g \in DOMAIN active_connections :
          /\ Cardinality(active_connections[g]) = 2
          /\ \A c \in active_connections[g] : conn[c].pc = "open"

\* C20: disconnect reconciliation.  When the receive loop of a connection that
\* a successful Connect registered in group g ends with a client disconnect,
\* afterwards the connection is in neither registry map, the entry of g is
\* absent if no connection of g remains, and a user_left event for its user is
\* sent to every connection still registered in g.
C20_DisconnectReconciliation ==
    [][\A c \in Conns :
          ( /\ conn[c].pc = "open"
            /\ conn[c].client = "gone"
            /\ Disconnect(c) ) =>
              LET g == conn[c].group_id
              IN  /\ ~(c \in DOMAIN websocket_users')
                  /\ \A k \in DOMAIN active_connections' : ~(c \in active_connections'[k])
                  /\ g \in DOMAIN active_connections' => active_connections'[g] # {}
                  /\ BroadcastStarted(c, UserLeftWebSocket(conn[c].user, g),
                                      ConnectionsOf(active_connections', g), "closed")]_vars

\* the connections that the broadcast under way in the task of c is for: the
\* copy of the connection set, without c for the events that are sent with
\* exclude=websocket (lines 153 and 177)
TargetsOf(c) ==
    IF conn[c].event.type \in {"user_joined", "typing"}
    THEN conn[c].copy \ {c} ELSE conn[c].copy

\* connection d is in neither registry map
Pruned(ac, wu, d) ==
    /\ ~(d \in DOMAIN wu)
    /\ \A g \in DOMAIN ac : ~(d \in ac[g])

\* C21: broadcast isolation and self-healing.  During a broadcast to group g
\* a send that fails does not stop the delivery to the other connections of
\* the group: the loop goes on with one send per connection not yet visited
\* until none is left, so that each of them is sent the event; and when the
\* broadcast has finished, every connection whose send failed is absent from
\* both registry maps.
C21_BroadcastIsolation ==
    /\ [][\A c \in Conns :
            ( /\ conn[c].pc = "bcast"
              /\ BroadcastStep(c) ) =>
                /\ OneSendOrEnd(c)
                /\ conn[c].todo # {} =>
                      /\ conn[c].failed \subseteq conn'[c].failed
                      /\ conn'[c].copy = conn[c].copy
                /\ conn[c].todo = {} =>
                      \A d \in conn[c].failed :
                          Pruned(active_connections', websocket_users', d)]_vars
    /\ [](\A c \in Conns :
            conn[c].pc = "bcast" =>
                /\ conn[c].attempted \cup conn[c].todo = TargetsOf(c)
                /\ conn[c].failed \subseteq conn[c].attempted)

\* C21 witness: in one broadcast the send to a connection has failed and the
\* event was sent to another connection all the same
C21_Witness ==
    \E c \in Conns :
        /\ conn[c].pc = "bcast"
        /\ conn[c].todo = {}
        /\ conn[c].failed # {}
        /\ conn[c].attempted \ conn[c].failed # {}

\* event x comes before event y in the sequence q
Before(q, x, y) ==
    \E i, j \in 1..Len(q) : i < j /\ q[i] = x /\ q[j] = y

\* C22: per-group serialization.  When two events are broadcast to the same
\* group by the handlers of different connections, every connection that is
\* sent both events is sent them in the same order: no connection is sent x
\* before y while another is sent y before x.
C22_SameOrder ==
    \A a, b \in Conns :
        \A i, j \in 1..Len(delivered.log[a]) :
            LET x == delivered.log[a][i]
                y == delivered.log[a][j]
            IN  (i < j /\ x # y /\ x.group_id = y.group_id)
                    => ~Before(delivered.log[b], y, x)

\* C26: no empty group entries.  In every state (a handler changes the maps
\* between two of its awaits, so never in the middle of a step), no group of
\* the group-to-connections map is mapped to the empty set, whether its
\* connections left through Disconnect or were pruned by a broadcast.
C26_NoEmptyGroupEntry ==
    \A g \in DOMAIN active_connections : active_connections[g] # {}

\* C27: a broadcast never fails as a whole.  Whatever other handlers do while
\* the broadcast is suspended in a send, a Disconnect that deletes the entry
\* of the group included, the cleanup after the last send finds the entry of
\* the group (the subscript of line 82 does not raise KeyError), and the
\* handler goes on where the call of broadcast_to_group returns.
C27_BroadcastReturns ==
    [][\A c \in Conns :
          ( /\ conn[c].pc = "bcast"
            /\ conn[c].todo = {}
            /\ BroadcastStep(c) ) =>
              /\ conn[c].failed # {} =>
                    conn[c].event.group_id \in DOMAIN active_connections
              /\ conn'[c].pc = conn[c].after
              /\ conn'[c].code = 0]_vars

\* a heartbeat event is among the events sent to connection c
HeartbeatSent(c) ==
    \E i \in 1..Len(delivered.log[c]) : delivered.log[c][i].type = "heartbeat"

\* C25: heartbeat.  On every established connection that stays open and
\* idle, the server eventually sends a heartbeat event to that connection:
\* a connection in its receive loop either leaves it or is sent a heartbeat.
C25_Heartbeat ==
    \A c \in Conns :
        [](conn[c].pc = "open" => <>(conn[c].pc # "open" \/ HeartbeatSent(c)))

\* C23: membership uniqueness.  In every state reachable by any sequence of
\* create_chat_group, create_managed_group (for every member_ids list, one
\* that repeats a user id included), add_group_member, join_public_group and
\* assign_user_to_group, there is at most one membership row per group and
\* user.
C23_MembershipUnique ==
    \A i, j \in 1..Len(chat_group_members) :
        ( /\ chat_group_members[i].group_id = chat_group_members[j].group_id
          /\ chat_group_members[i].user_id = chat_group_members[j].user_id ) => i = j

\* C24: the manager stays a member.  In every state reachable by the chat
\* group handlers, every group whose manager is set has a membership row for
\* that manager.
C24_ManagerIsMember ==
    \A g \in 1..Len(chat_groups) :
        chat_groups[g].managed_by_id # NoneStr =>
            \E i \in 1..Len(chat_group_members) :
                /\ chat_group_members[i].group_id = g
                /\ chat_group_members[i].user_id = chat_groups[g].managed_by_id

\* C28: registered connections belong to current members.  In every state
\* reachable by interleaving Connect, Receive and Disconnect with the removal
\* of members, every connection registered under group g belongs to a user
\* who has a membership row in g.
C28_RegisteredAreMembers ==
    \A g \in DOMAIN active_connections :
        \A c \in active_connections[g] :
            c \in DOMAIN websocket_users =>
                MemberRows(chat_group_members, g, websocket_users[c]) # {}

\* C29: the attendance rate is bounded.  For every event and every reachable
\* set of registrations and attendance records, the statistics omit the
\* attendance rate when the CONFIRMED count is 0 and otherwise report a rate
\* of at most 100 percent: the present attendance records counted are never
\* more than the CONFIRMED registrations of the event.
C29_AttendanceRateBounded ==
    \A e \in DOMAIN events :
        LET stats == get_event_registration_stats(regs, attendance, e)
            rate == stats.attendance_rate
        IN  /\ stats.confirmed_registrations = 0 => rate.none
            /\ stats.confirmed_registrations > 0 =>
                  (~rate.none /\ rate.num <= 100 * rate.den)
            /\ attended_count(regs, attendance, e) <= stats.confirmed_registrations

(***************************************************************************)
(* C30: with Redis reachable, for every client address and every window of *)
(* `period' seconds the rate limiter lets at most `calls' of the requests  *)
(* that it limits through to the application, also when several requests   *)
(* arrive within the same second.                                          *)
(***************************************************************************)
PassedIn(ip, t) ==
    {i \in 1..Len(passed[ip]) : t <= passed[ip][i] /\ passed[ip][i] < t + period}

C30_RateBound ==
    \A ip \in ClientIps : \A t \in 0..MaxClock :
        Cardinality(PassedIn(ip, t)) <= calls

====
